---- MODULE Spec2Model ----
(***************************************************************************)
(* Model of the Base64 codecs of qoreutils: base64 (buffering: decode and  *)
(* encode return a Vec that main writes out) and qbase64 (streaming: the   *)
(* codec writes each group to the output as it goes), and of the other     *)
(* utilities: wc (count_reader), tee, chmod (parse_mode) and ls (list_dir).*)
(* Each utility has its own variables and its own specification; the       *)
(* variables of the other utilities stay idle in it.                       *)
(* Bytes and symbols are integers 0..255 (Rust u8); a char of the table is *)
(* its ASCII code, which is what `x as u8` yields for it.                  *)
(***************************************************************************)
EXTENDS Integers, Sequences, FiniteSets, TLC

\* the codecs
VARIABLES prog, mode, input, pc, k, buf, output, sink, result, scanned,
          stage, original

\* wc
VARIABLES wcInput, wcPos, wcInWord, wcCounts, wcPc

codecVars == <<prog, mode, input, pc, k, buf, output, sink, result, scanned,
               stage, original>>

\* tee
VARIABLES teePaths, teeAppend, teeInput, teeFs, teeBroken, teeWriters, teePos,
          teeErrs, teePc

\* chmod
VARIABLES chmodStr, chmodParts, chmodPart, chmodMode, chmodPrev, chmodRes,
          chmodVal, chmodPc

\* ls
VARIABLES lsEntries, lsReadable, lsInclude, lsPos, lsNames, lsRes, lsVal, lsPc

wcVars == <<wcInput, wcPos, wcInWord, wcCounts, wcPc>>

teeVars == <<teePaths, teeAppend, teeInput, teeFs, teeBroken, teeWriters, teePos,
             teeErrs, teePc>>

chmodVars == <<chmodStr, chmodParts, chmodPart, chmodMode, chmodPrev, chmodRes,
               chmodVal, chmodPc>>

lsVars == <<lsEntries, lsReadable, lsInclude, lsPos, lsNames, lsRes, lsVal, lsPc>>

vars == <<codecVars, wcVars, teeVars, chmodVars, lsVars>>

nonCodecVars == <<wcVars, teeVars, chmodVars, lsVars>>

nonWcVars == <<codecVars, teeVars, chmodVars, lsVars>>

nonTeeVars == <<codecVars, wcVars, chmodVars, lsVars>>

nonChmodVars == <<codecVars, wcVars, teeVars, lsVars>>

nonLsVars == <<codecVars, wcVars, teeVars, chmodVars>>

----------------------------------------------------------------------------
(* Bounds of the model *)

\* longest byte sequence given to encode by Init
MaxEncLen == 4

\* longest symbol sequence given to decode by Init
MaxDecLen == 5

\* byte values the encoder inputs are drawn from
ByteSamples == {0, 72, 79, 255}

\* symbols the decoder inputs are drawn from: 'S', 'V', '/', '=', '#'
SymSamples == {83, 86, 47, 61, 35}

\* the vectors of the tests and of the specification
HELLO == <<72, 69, 76, 76, 79>>
SEVMTE8pad == <<83, 69, 86, 77, 84, 69, 56, 61>>
SEVMhashE8pad == <<83, 69, 86, 77, 35, 69, 56, 61>>
SpadVM == <<83, 61, 86, 77>>

----------------------------------------------------------------------------
(* The alphabet table and the integer operators of the code *)

\* the URL-safe alphabet: '-' and '_' in the place of '+' and '/'
B64TABLEUrlSafe ==
    << 65, 66, 67, 68, 69, 70, 71, 72, 73, 74, 75, 76, 77, 78, 79, 80, 81, 82, 83,
       84, 85, 86, 87, 88, 89, 90, 97, 98, 99, 100, 101, 102, 103, 104, 105, 106, 107, 108,
       109, 110, 111, 112, 113, 114, 115, 116, 117, 118, 119, 120, 121, 122, 48, 49, 50, 51, 52,
       53, 54, 55, 56, 57, 45, 95 >>

\* a table with a typing slip: 'I' (73) in the place of 'l' (108)
B64TABLEDup ==
    << 65, 66, 67, 68, 69, 70, 71, 72, 73, 74, 75, 76, 77, 78, 79, 80, 81, 82, 83,
       84, 85, 86, 87, 88, 89, 90, 97, 98, 99, 100, 101, 102, 103, 104, 105, 106, 107, 73,
       109, 110, 111, 112, 113, 114, 115, 116, 117, 118, 119, 120, 121, 122, 48, 49, 50, 51, 52,
       53, 54, 55, 56, 57, 43, 47 >>

B64TABLE ==
    << 65, 66, 67, 68, 69, 70, 71, 72, 73, 74, 75, 76, 77, 78, 79, 80, 81, 82, 83,
       84, 85, 86, 87, 88, 89, 90, 97, 98, 99, 100, 101, 102, 103, 104, 105, 106, 107, 108,
       109, 110, 111, 112, 113, 114, 115, 116, 117, 118, 119, 120, 121, 122, 48, 49, 50, 51, 52,
       53, 54, 55, 56, 57, 43, 47 >>

\* '=' as u8
PAD == 61

\* Option::None of Iterator::position
NoPos == -1

Pow2(n) == 2 ^ n

\* a << n on values that stay below 2^24 (no bit is shifted out of a u32)
Shl(a, n) == a * Pow2(n)

\* a >> n
Shr(a, n) == a \div Pow2(n)

RECURSIVE BitOr(_, _)
BitOr(a, b) ==
    IF a = 0 THEN b
    ELSE IF b = 0 THEN a
    ELSE (IF a % 2 = 1 \/ b % 2 = 1 THEN 1 ELSE 0) + 2 * BitOr(a \div 2, b \div 2)

RECURSIVE BitAnd(_, _)
BitAnd(a, b) ==
    IF a = 0 \/ b = 0 THEN 0
    ELSE (IF a % 2 = 1 /\ b % 2 = 1 THEN 1 ELSE 0) + 2 * BitAnd(a \div 2, b \div 2)

Min(a, b) == IF a < b THEN a ELSE b

\* slice.chunks(n): the number of chunks and the c-th chunk (0-indexed)
NumChunks(s, n) == (Len(s) + n - 1) \div n

Chunk(s, n, c) == SubSeq(s, c * n + 1, Min(Len(s), (c + 1) * n))

----------------------------------------------------------------------------
(* encode: the body of the closure run on each chunk of 3 bytes *)

EncChunkSize == 3

\* the shift of a 16-bit accumulator: underflows for the third byte
EncByteShiftNarrow(i) == 8 - i * 8

EncByteShift(i) == 16 - i * 8

EncSextetShift(i) == 18 - i * 6

\* for i in 0..l { b3 = b3 | (chunk[i] as u32) << shift }
RECURSIVE EncPack(_, _, _)
EncPack(chunk, i, b3) ==
    IF i >= Len(chunk) THEN b3
    ELSE EncPack(chunk, i + 1, BitOr(b3, Shl(chunk[i + 1], EncByteShift(i))))

\* (b3 & (63 << shift)) >> shift
EncSextet(b3, i) ==
    Shr(BitAnd(b3, Shl(63, EncSextetShift(i))), EncSextetShift(i))

\* for i in 0..=l { encoded.push(B64TABLE[sextet as usize] as u8) }
EncSymbols(b3, l) == [j \in 1..(l + 1) |-> B64TABLE[EncSextet(b3, j - 1) + 1]]

\* an encoder without padding
EncPadNone(l) == <<>>

\* an encoder that pads a short group with a single '='
EncPadOne(l) == IF l < 3 THEN <<PAD>> ELSE <<>>

\* for _ in l..3 { encoded.push('=' as u8) }
EncPad(l) == [j \in 1..(3 - l) |-> PAD]

\* the closure panics when a usize subtraction underflows or the table index
\* is out of range
EncodePanics(chunk) ==
    \/ \E i \in 0..(Len(chunk) - 1) : EncByteShift(i) < 0
    \/ \E i \in 0..Len(chunk) : EncSextetShift(i) < 0
    \/ \E i \in 0..Len(chunk) : EncSextet(EncPack(chunk, 0, 0), i) >= Len(B64TABLE)

EncodeChunk(chunk) ==
    EncSymbols(EncPack(chunk, 0, 0), Len(chunk)) \o EncPad(Len(chunk))

----------------------------------------------------------------------------
(* decode: the body of the closure run on each chunk of 4 symbols *)

DecChunkSize == 4

\* the sextet shift computed with the byte stride: underflows for the 4th symbol
DecSextetShiftWide(i) == 18 - i * 8

DecSextetShift(i) == 18 - i * 6

DecByteShift(i) == 16 - i * 8

\* a lookup that maps an unknown symbol to index 0 instead of None
PositionLenient(c) ==
    IF \E i \in 1..Len(B64TABLE) : B64TABLE[i] = c
    THEN (CHOOSE i \in 1..Len(B64TABLE) :
             /\ B64TABLE[i] = c
             /\ \A j \in 1..(i - 1) : B64TABLE[j] # c) - 1
    ELSE 0

\* B64TABLE.iter().position(|&x| (x as u8) == *c), 0-indexed
Position(c) ==
    IF \E i \in 1..Len(B64TABLE) : B64TABLE[i] = c
    THEN (CHOOSE i \in 1..Len(B64TABLE) :
             /\ B64TABLE[i] = c
             /\ \A j \in 1..(i - 1) : B64TABLE[j] # c) - 1
    ELSE NoPos

\* a scan that notes an invalid symbol but goes on to the end of the chunk
RECURSIVE DecScanWhole(_, _, _, _)
DecScanWhole(chunk, i, encoded, pad_count) ==
    IF i >= Len(chunk)
    THEN [err |-> \E j \in 1..Len(chunk) : chunk[j] # PAD /\ Position(chunk[j]) = NoPos,
          encoded |-> encoded, pad_count |-> pad_count, seen |-> i]
    ELSE IF chunk[i + 1] = PAD
    THEN DecScanWhole(chunk, i + 1, encoded, pad_count + 1)
    ELSE IF Position(chunk[i + 1]) # NoPos
    THEN DecScanWhole(chunk, i + 1,
                 BitOr(encoded, Shl(Position(chunk[i + 1]), DecSextetShift(i))),
                 pad_count)
    ELSE DecScanWhole(chunk, i + 1, encoded, pad_count)

\* the scan loop over the symbols of one chunk, from symbol i on
RECURSIVE DecScan(_, _, _, _)
DecScan(chunk, i, encoded, pad_count) ==
    IF i >= Len(chunk)
    THEN [err |-> FALSE, encoded |-> encoded, pad_count |-> pad_count, seen |-> i]
    ELSE IF chunk[i + 1] = PAD
    THEN DecScan(chunk, i + 1, encoded, pad_count + 1)
    ELSE IF Position(chunk[i + 1]) # NoPos
    THEN DecScan(chunk, i + 1,
                 BitOr(encoded, Shl(Position(chunk[i + 1]), DecSextetShift(i))),
                 pad_count)
    ELSE [err |-> TRUE, encoded |-> encoded, pad_count |-> pad_count, seen |-> i + 1]

\* an emit loop that ignores the padding
DecEmitCountAll(pad_count) == 3

\* the number of bytes the emit loop pushes: for i in 0..(3 - pad_count), i32
DecEmitCount(pad_count) == IF 3 - pad_count > 0 THEN 3 - pad_count ELSE 0

\* let mask = 255 << shift; let v = (encoded & mask) >> shift; v as u8
DecByte(encoded, i) ==
    Shr(BitAnd(encoded, Shl(255, DecByteShift(i))), DecByteShift(i)) % 256

DecBytes(encoded, pad_count) ==
    [j \in 1..DecEmitCount(pad_count) |-> DecByte(encoded, j - 1)]

\* the closure panics when a usize subtraction (18 - i * 6, for a symbol the
\* scan reaches and looks up) or a shift amount of the emit loop underflows
DecodePanics(chunk) ==
    LET invalid == {i \in 0..(Len(chunk) - 1) :
                       chunk[i + 1] # PAD /\ Position(chunk[i + 1]) = NoPos}
        pads == Cardinality({i \in 1..Len(chunk) : chunk[i] = PAD})
    IN  \/ \E i \in 0..(Len(chunk) - 1) :
              /\ \A j \in invalid : i < j
              /\ chunk[i + 1] # PAD
              /\ DecSextetShift(i) < 0
        \/ /\ invalid = {}
           /\ \E i \in 0..(DecEmitCount(pads) - 1) : DecByteShift(i) < 0

----------------------------------------------------------------------------
(* The inputs *)

RECURSIVE SeqsUpTo(_, _)
SeqsUpTo(S, n) ==
    IF n = 0 THEN {<<>>}
    ELSE LET shorter == SeqsUpTo(S, n - 1)
         IN  shorter \cup {Append(s, x) : s \in shorter, x \in S}

EncInputs == SeqsUpTo(ByteSamples, MaxEncLen) \cup {HELLO, <<0>>, <<255, 255, 255>>}

DecInputs == SeqsUpTo(SymSamples, MaxDecLen) \cup {SEVMTE8pad, SEVMhashE8pad, SpadVM}

Progs == {"base64", "qbase64"}

Modes == {"ENCODE", "DECODE"}

----------------------------------------------------------------------------
(* The codecs *)

\* no codec runs
CodecIdle ==
    /\ prog = "none"
    /\ mode = "none"
    /\ input = <<>>
    /\ pc = "idle"
    /\ k = 0
    /\ buf = <<>>
    /\ output = <<>>
    /\ sink = <<>>
    /\ result = "none"
    /\ scanned = 0
    /\ stage = 0
    /\ original = <<>>

\* wc does not run
WcIdle ==
    /\ wcInput = <<>>
    /\ wcPos = 0
    /\ wcInWord = FALSE
    /\ wcCounts = [lines |-> 0, words |-> 0, bytes |-> 0, chars |-> 0]
    /\ wcPc = "idle"

\* tee does not run
TeeIdle ==
    /\ teePaths = <<>>
    /\ teeAppend = FALSE
    /\ teeInput = <<>>
    /\ teeFs = <<>>
    /\ teeBroken = {}
    /\ teeWriters = <<>>
    /\ teePos = 0
    /\ teeErrs = 0
    /\ teePc = "idle"

\* chmod does not run
ChmodIdle ==
    /\ chmodStr = <<>>
    /\ chmodParts = <<>>
    /\ chmodPart = 0
    /\ chmodMode = 0
    /\ chmodPrev = 0
    /\ chmodRes = "none"
    /\ chmodVal = 0
    /\ chmodPc = "idle"

\* ls does not run
LsIdle ==
    /\ lsEntries = <<>>
    /\ lsReadable = FALSE
    /\ lsInclude = FALSE
    /\ lsPos = 0
    /\ lsNames = <<>>
    /\ lsRes = "none"
    /\ lsVal = <<>>
    /\ lsPc = "idle"

Init ==
    /\ WcIdle
    /\ TeeIdle
    /\ ChmodIdle
    /\ LsIdle
    /\ prog \in Progs
    /\ mode \in Modes
    /\ input \in (IF mode = "ENCODE" THEN EncInputs ELSE DecInputs)
    /\ pc = "loop"
    /\ k = 0
    /\ buf = <<>>
    /\ output = <<>>
    /\ sink = <<>>
    /\ result = "none"
    /\ scanned = 0
    /\ stage = 1
    /\ original = <<>>

\* base64 encode: one run of the for_each closure
B64EncodeStep ==
    /\ prog = "base64" /\ mode = "ENCODE" /\ pc = "loop"
    /\ k < NumChunks(input, EncChunkSize)
    /\ LET chunk == Chunk(input, EncChunkSize, k)
       IN  IF EncodePanics(chunk)
           THEN /\ pc' = "panicked"
                /\ result' = "panic"
                /\ UNCHANGED <<k, buf>>
           ELSE /\ buf' = buf \o EncodeChunk(chunk)
                /\ k' = k + 1
                /\ UNCHANGED <<pc, result>>
    /\ UNCHANGED <<prog, mode, input, output, sink, scanned, stage, original>>
    /\ UNCHANGED nonCodecVars

\* base64 decode: one run of the try_for_each closure
B64DecodeStep ==
    /\ prog = "base64" /\ mode = "DECODE" /\ pc = "loop"
    /\ k < NumChunks(input, DecChunkSize)
    /\ IF DecodePanics(Chunk(input, DecChunkSize, k))
       THEN /\ pc' = "panicked"
            /\ result' = "panic"
            /\ UNCHANGED <<k, buf, scanned>>
       ELSE LET r == DecScan(Chunk(input, DecChunkSize, k), 0, 0, 0)
            IN  /\ scanned' = scanned + r.seen
                /\ IF r.err
                   THEN /\ result' = "Err"
                        /\ pc' = "returned"
                        /\ buf' = <<>>
                        /\ UNCHANGED k
                   ELSE /\ buf' = buf \o DecBytes(r.encoded, r.pad_count)
                        /\ k' = k + 1
                        /\ UNCHANGED <<pc, result>>
    /\ UNCHANGED <<prog, mode, input, output, sink, stage, original>>
    /\ UNCHANGED nonCodecVars

\* base64 encode and decode: Ok(encoded) / Ok(decoded) after the last chunk
B64Return ==
    /\ prog = "base64" /\ pc = "loop"
    /\ k = NumChunks(input, IF mode = "ENCODE" THEN EncChunkSize ELSE DecChunkSize)
    /\ result' = "Ok"
    /\ output' = buf
    /\ pc' = "returned"
    /\ UNCHANGED <<prog, mode, input, k, buf, sink, scanned, stage, original>>
    /\ UNCHANGED nonCodecVars

\* base64 main: config.output.write(&output)
B64MainWrite ==
    /\ prog = "base64" /\ pc = "returned" /\ result = "Ok"
    /\ sink' = sink \o output
    /\ pc' = "exited"
    /\ UNCHANGED <<prog, mode, input, k, buf, output, result, scanned, stage, original>>
    /\ UNCHANGED nonCodecVars

\* qbase64 encode: one run of the for_each closure, output.write(&encoded)
QEncodeStep ==
    /\ prog = "qbase64" /\ mode = "ENCODE" /\ pc = "loop"
    /\ k < NumChunks(input, EncChunkSize)
    /\ LET chunk == Chunk(input, EncChunkSize, k)
       IN  IF EncodePanics(chunk)
           THEN /\ pc' = "panicked"
                /\ result' = "panic"
                /\ UNCHANGED <<k, sink>>
           ELSE /\ sink' = sink \o EncodeChunk(chunk)
                /\ k' = k + 1
                /\ UNCHANGED <<pc, result>>
    /\ UNCHANGED <<prog, mode, input, buf, output, scanned, stage, original>>
    /\ UNCHANGED nonCodecVars

\* qbase64 decode: one run of the try_for_each closure, output.write(&[v as u8])
QDecodeStep ==
    /\ prog = "qbase64" /\ mode = "DECODE" /\ pc = "loop"
    /\ k < NumChunks(input, DecChunkSize)
    /\ IF DecodePanics(Chunk(input, DecChunkSize, k))
       THEN /\ pc' = "panicked"
            /\ result' = "panic"
            /\ UNCHANGED <<k, sink, scanned>>
       ELSE LET r == DecScan(Chunk(input, DecChunkSize, k), 0, 0, 0)
            IN  /\ scanned' = scanned + r.seen
                /\ IF r.err
                   THEN /\ result' = "Err"
                        /\ pc' = "returned"
                        /\ UNCHANGED <<k, sink>>
                   ELSE /\ sink' = sink \o DecBytes(r.encoded, r.pad_count)
                        /\ k' = k + 1
                        /\ UNCHANGED <<pc, result>>
    /\ UNCHANGED <<prog, mode, input, buf, output, stage, original>>
    /\ UNCHANGED nonCodecVars

\* qbase64 encode and decode: Ok(()) after the last chunk
QReturn ==
    /\ prog = "qbase64" /\ pc = "loop"
    /\ k = NumChunks(input, IF mode = "ENCODE" THEN EncChunkSize ELSE DecChunkSize)
    /\ result' = "Ok"
    /\ pc' = "returned"
    /\ UNCHANGED <<prog, mode, input, k, buf, output, sink, scanned, stage, original>>
    /\ UNCHANGED nonCodecVars

\* qbase64 main: .unwrap() of Ok(()) and the end of main
QMainExit ==
    /\ prog = "qbase64" /\ pc = "returned" /\ result = "Ok"
    /\ pc' = "exited"
    /\ UNCHANGED <<prog, mode, input, k, buf, output, sink, result, scanned, stage, original>>
    /\ UNCHANGED nonCodecVars

\* main of both programs: .unwrap() of an Err panics, nothing more is written
MainUnwrapErr ==
    /\ pc = "returned" /\ result = "Err"
    /\ pc' = "panicked"
    /\ UNCHANGED <<prog, mode, input, k, buf, output, sink, result, scanned, stage, original>>
    /\ UNCHANGED nonCodecVars

\* the output of a finished encoding run is given to a decoding run
Pipe ==
    /\ stage = 1 /\ mode = "ENCODE" /\ pc = "exited"
    /\ stage' = 2
    /\ original' = input
    /\ input' = sink
    /\ prog' \in Progs
    /\ mode' = "DECODE"
    /\ pc' = "loop"
    /\ k' = 0
    /\ buf' = <<>>
    /\ output' = <<>>
    /\ sink' = <<>>
    /\ result' = "none"
    /\ scanned' = 0
    /\ UNCHANGED nonCodecVars

Next ==
    \/ B64EncodeStep
    \/ B64DecodeStep
    \/ B64Return
    \/ B64MainWrite
    \/ QEncodeStep
    \/ QDecodeStep
    \/ QReturn
    \/ QMainExit
    \/ MainUnwrapErr
    \/ Pipe

Spec == Init /\ [][Next]_vars

----------------------------------------------------------------------------
(* wc: count_reader *)

\* longest byte sequence given to count_reader by WcInit
MaxWcLen == 4

\* ' ', '\n', 'a', vertical tab, a UTF-8 continuation byte and a lead byte
WcSamples == {32, 10, 97, 11, 189, 228}

\* the inputs of the tests with repeated whitespace, only whitespace, UTF-8
\* text, an emoji, and no trailing newline
WcVaryingWhitespace ==
    <<32, 32, 104, 101, 108, 108, 111, 32, 32, 32, 119, 111, 114, 108, 100, 32, 32, 10>>

WcOnlyWhitespace == <<32, 32, 32, 10, 9, 10, 32, 32>>

WcMixedUnicode == <<104, 105, 32, 228, 189, 160, 229, 165, 189, 10>>

WcEmoji == <<240, 159, 152, 128, 10>>

WcNoNewline == <<110, 111, 32, 110, 101, 119, 108, 105, 110, 101>>

WcInputs ==
    SeqsUpTo(WcSamples, MaxWcLen) \cup
        {WcVaryingWhitespace, WcOnlyWhitespace, WcMixedUnicode, WcEmoji, WcNoNewline}

\* isspace() of C: with the vertical tab
IsAsciiWhitespaceC(b) == b \in {9, 10, 11, 12, 13, 32}

\* u8::is_ascii_whitespace: space, tab, line feed, form feed, carriage return
IsAsciiWhitespace(b) == b \in {9, 10, 12, 13, 32}

\* (128u8..192u8).contains(&b)
IsContinuationByte(b) == b >= 128 /\ b < 192

\* the body of the loop of count_reader for the byte b
CountByte(counts, in_word, b) ==
    [counts |->
        [bytes |-> counts.bytes + 1,
         lines |-> IF b = 10 THEN counts.lines + 1 ELSE counts.lines,
         words |-> IF ~IsAsciiWhitespace(b) /\ ~in_word
                   THEN counts.words + 1 ELSE counts.words,
         chars |-> IF ~IsContinuationByte(b) THEN counts.chars + 1 ELSE counts.chars],
     in_word |-> ~IsAsciiWhitespace(b)]

WcInit ==
    /\ CodecIdle
    /\ TeeIdle
    /\ ChmodIdle
    /\ LsIdle
    /\ wcInput \in WcInputs
    /\ wcPos = 0
    /\ wcInWord = FALSE
    /\ wcCounts = [lines |-> 0, words |-> 0, bytes |-> 0, chars |-> 0]
    /\ wcPc = "loop"

\* one turn of the loop over reader.bytes()
WcByte ==
    /\ wcPc = "loop"
    /\ wcPos < Len(wcInput)
    /\ LET r == CountByte(wcCounts, wcInWord, wcInput[wcPos + 1])
       IN  /\ wcCounts' = r.counts
           /\ wcInWord' = r.in_word
    /\ wcPos' = wcPos + 1
    /\ UNCHANGED <<wcInput, wcPc>>
    /\ UNCHANGED nonWcVars

\* let b = byte?; with a failed read: count_reader returns the error
WcReadError ==
    /\ wcPc = "loop"
    /\ wcPos < Len(wcInput)
    /\ wcPc' = "failed"
    /\ UNCHANGED <<wcInput, wcPos, wcInWord, wcCounts>>
    /\ UNCHANGED nonWcVars

\* the end of the input: Ok(counts)
WcReturn ==
    /\ wcPc = "loop"
    /\ wcPos = Len(wcInput)
    /\ wcPc' = "done"
    /\ UNCHANGED <<wcInput, wcPos, wcInWord, wcCounts>>
    /\ UNCHANGED nonWcVars

WcNext ==
    \/ WcByte
    \/ WcReadError
    \/ WcReturn

SpecWc == WcInit /\ [][WcNext]_vars

----------------------------------------------------------------------------
(* tee *)

\* longest list of paths given to tee
MaxTeePaths == 2

\* longest input given to tee
MaxTeeLen == 2

\* two files that can be opened and a path that cannot (/nonexistent/path)
TeeFiles == {"f1", "f2"}

TeePathNames == TeeFiles \cup {"missing"}

\* what a file holds before the call (empty also stands for a new file)
TeeOldContents == {<<>>, <<1, 2, 3>>}

TeeInputs == SeqsUpTo({7, 8}, MaxTeeLen)

\* the bytes of a file after a write of data at offset off
WriteAt(content, off, data) ==
    SubSeq(content, 1, off) \o data \o SubSeq(content, off + Len(data) + 1, Len(content))

\* the filter_map of tee: a writer for each path that opens, in order
RECURSIVE OpenWriters(_)
OpenWriters(paths) ==
    IF paths = <<>> THEN <<>>
    ELSE (IF Head(paths) \in TeeFiles
          THEN <<[target |-> Head(paths), off |-> 0, got |-> <<>>]>>
          ELSE <<>>) \o OpenWriters(Tail(paths))

\* a write that gives up at the first writer that fails
RECURSIVE TeeWriteStopAtError(_, _, _, _, _, _)
TeeWriteStopAtError(writers, fs, data, append, broken, i) ==
    IF i > Len(writers) THEN [writers |-> writers, fs |-> fs, errs |-> 0]
    ELSE LET w == writers[i]
         IN  IF w.target \in broken
             THEN [writers |-> writers, fs |-> fs, errs |-> 1]
             ELSE TeeWriteStopAtError(
                      [writers EXCEPT ![i] = [w EXCEPT !.off = w.off + Len(data),
                                                       !.got = w.got \o data]],
                      IF w.target = "stdout" THEN fs
                      ELSE [fs EXCEPT ![w.target] =
                               IF append THEN fs[w.target] \o data
                               ELSE WriteAt(fs[w.target], w.off, data)],
                      data, append, broken, i + 1)

\* TeeWriters::write: write_all of the buffer to each writer from the i-th
\* on, an error being printed and passed over
RECURSIVE TeeWrite(_, _, _, _, _, _)
TeeWrite(writers, fs, data, append, broken, i) ==
    IF i > Len(writers) THEN [writers |-> writers, fs |-> fs, errs |-> 0]
    ELSE LET w == writers[i]
         IN  IF w.target \in broken
             THEN LET r == TeeWrite(writers, fs, data, append, broken, i + 1)
                  IN  [r EXCEPT !.errs = r.errs + 1]
             ELSE TeeWrite(
                      [writers EXCEPT ![i] = [w EXCEPT !.off = w.off + Len(data),
                                                       !.got = w.got \o data]],
                      IF w.target = "stdout" THEN fs
                      ELSE [fs EXCEPT ![w.target] =
                               IF append THEN fs[w.target] \o data
                               ELSE WriteAt(fs[w.target], w.off, data)],
                      data, append, broken, i + 1)

TeeInit ==
    /\ CodecIdle
    /\ WcIdle
    /\ ChmodIdle
    /\ LsIdle
    /\ teePaths \in SeqsUpTo(TeePathNames, MaxTeePaths)
    /\ teeAppend \in BOOLEAN
    /\ teeInput \in TeeInputs
    /\ teeFs \in [TeeFiles -> TeeOldContents]
    /\ teeBroken \in SUBSET (TeeFiles \cup {"stdout"})
    /\ teeWriters = <<>>
    /\ teePos = 0
    /\ teeErrs = 0
    /\ teePc = "open"

\* tee: the paths are opened (create, write, append if asked; no truncate)
\* and stdout is pushed after them
TeeOpen ==
    /\ teePc = "open"
    /\ teeWriters' = OpenWriters(teePaths) \o
                        <<[target |-> "stdout", off |-> 0, got |-> <<>>]>>
    /\ teeErrs' = teeErrs + Cardinality({i \in 1..Len(teePaths) : teePaths[i] \notin TeeFiles})
    /\ teePc' = "copy"
    /\ UNCHANGED <<teePaths, teeAppend, teeInput, teeFs, teeBroken, teePos>>
    /\ UNCHANGED nonTeeVars

\* io::copy: one read of n bytes and the write of them to the TeeWriters
TeeCopyChunk ==
    /\ teePc = "copy"
    /\ \E n \in 1..(Len(teeInput) - teePos) :
          LET r == TeeWrite(teeWriters, teeFs, SubSeq(teeInput, teePos + 1, teePos + n),
                            teeAppend, teeBroken, 1)
          IN  /\ teeWriters' = r.writers
              /\ teeFs' = r.fs
              /\ teeErrs' = teeErrs + r.errs
              /\ teePos' = teePos + n
    /\ UNCHANGED <<teePaths, teeAppend, teeInput, teeBroken, teePc>>
    /\ UNCHANGED nonTeeVars

\* io::copy: the read returns 0 bytes, copy and tee return
TeeReturn ==
    /\ teePc = "copy"
    /\ teePos = Len(teeInput)
    /\ teePc' = "done"
    /\ UNCHANGED <<teePaths, teeAppend, teeInput, teeFs, teeBroken, teeWriters, teePos,
                   teeErrs>>
    /\ UNCHANGED nonTeeVars

TeeNext ==
    \/ TeeOpen
    \/ TeeCopyChunk
    \/ TeeReturn

SpecTee == TeeInit /\ [][TeeNext]_vars

----------------------------------------------------------------------------
(* chmod: parse_mode. A mode string is a sequence of one-character strings *)

\* most clauses of a symbolic mode given to parse_mode
MaxClauses == 2

\* most digits of an octal mode given to parse_mode
MaxOctLen == 3

\* the who parts and the permission parts the clauses are made of
WhoSamples == {<<>>, <<"u">>, <<"g", "o">>, <<"a">>}

PermSamples == {<<>>, <<"r">>, <<"w", "x">>, <<"r", "w", "x">>}

ClauseSamples ==
    {w \o <<op>> \o q : w \in WhoSamples, op \in {"+", "-", "="}, q \in PermSamples}

RECURSIVE ClauseLists(_)
ClauseLists(n) ==
    IF n = 1 THEN ClauseSamples
    ELSE LET shorter == ClauseLists(n - 1)
         IN  shorter \cup {l \o <<",">> \o c : l \in shorter, c \in ClauseSamples}

\* strings of digits, the strings of the tests, and strings with a slip
ModeStrings ==
    ClauseLists(MaxClauses) \cup
    SeqsUpTo({"0", "5", "7", "8"}, MaxOctLen) \cup
    {<<"6", "4", "4">>, <<"0", "7", "5", "5">>, <<"0", "7", "7", "7">>,
     <<"u", "=", "r", "w">>,
     <<"a", "b", "c">>, <<"u", "r">>, <<"u", "+", "q">>, <<"x", "+", "r">>,
     <<"u", "+", "r", ",">>, <<"u", "+", "r", "-", "w">>}

Contains(str, c) == \E i \in 1..Len(str) : str[i] = c

\* str.split(','): the parts between the commas, empty ones too
RECURSIVE Split(_, _)
Split(str, cur) ==
    IF str = <<>> THEN <<cur>>
    ELSE IF Head(str) = "," THEN <<cur>> \o Split(Tail(str), <<>>)
    ELSE Split(Tail(str), Append(cur, Head(str)))

\* a & !b
AndNot(a, b) == a - BitAnd(a, b)

WhoMask(c) ==
    CASE c = "u" -> 448
      [] c = "g" -> 56
      [] c = "o" -> 7
      [] c = "a" -> 511

PermMask(c) ==
    CASE c = "r" -> 292
      [] c = "w" -> 146
      [] c = "x" -> 73

\* the while loop over the who characters: the mask and the characters taken
RECURSIVE ParseWho(_, _, _)
ParseWho(part, i, who) ==
    IF i <= Len(part) /\ part[i] \in {"u", "g", "o", "a"}
    THEN ParseWho(part, i + 1, BitOr(who, WhoMask(part[i])))
    ELSE [who |-> who, next |-> i]

\* the for loop over the permission characters, from the i-th on; -1 for Err
RECURSIVE ParsePerms(_, _, _, _)
ParsePerms(part, i, who, permissions) ==
    IF i > Len(part) THEN permissions
    ELSE IF part[i] \in {"r", "w", "x"}
    THEN ParsePerms(part, i + 1, who, BitOr(permissions, BitAnd(PermMask(part[i]), who)))
    ELSE -1

\* '=' that sets the permissions without clearing the bits of who first
ChmodApplyNoClear(operation, result_mode, who, permissions) ==
    CASE operation = "+" -> BitOr(result_mode, permissions)
      [] operation = "-" -> AndNot(result_mode, permissions)
      [] operation = "=" -> BitOr(result_mode, permissions)

\* match operation { '+' .. '-' .. '=' .. }
ChmodApply(operation, result_mode, who, permissions) ==
    CASE operation = "+" -> BitOr(result_mode, permissions)
      [] operation = "-" -> AndNot(result_mode, permissions)
      [] operation = "=" -> BitOr(AndNot(result_mode, who), permissions)

\* the body of the loop over the parts: the new result_mode, or Err
ParsePart(part, result_mode) ==
    LET w == ParseWho(part, 1, 0)
        who == IF w.who = 0 THEN 511 ELSE w.who
    IN  IF w.next > Len(part) \/ part[w.next] \notin {"+", "-", "="}
        THEN [err |-> TRUE, mode |-> result_mode]
        ELSE LET permissions == ParsePerms(part, w.next + 1, who, 0)
             IN  IF permissions = -1
                 THEN [err |-> TRUE, mode |-> result_mode]
                 ELSE [err |-> FALSE,
                       mode |-> ChmodApply(part[w.next], result_mode, who, permissions)]

OctDigit(c) ==
    CASE c = "0" -> 0 [] c = "1" -> 1 [] c = "2" -> 2 [] c = "3" -> 3
      [] c = "4" -> 4 [] c = "5" -> 5 [] c = "6" -> 6 [] c = "7" -> 7

\* u32::from_str_radix(str, 8) on a string without sign: -1 for Err (the
\* empty string, a character that is no octal digit); the strings of the
\* model are too short to overflow a u32
RECURSIVE FromStrRadix8(_, _)
FromStrRadix8(str, acc) ==
    IF str = <<>> THEN acc
    ELSE IF Head(str) \notin {"0", "1", "2", "3", "4", "5", "6", "7"} THEN -1
    ELSE FromStrRadix8(Tail(str), acc * 8 + OctDigit(Head(str)))

ParseOctal(str) == IF str = <<>> THEN -1 ELSE FromStrRadix8(str, 0)

IsSymbolic(str) == Contains(str, "+") \/ Contains(str, "-") \/ Contains(str, "=")

ChmodInit ==
    /\ CodecIdle
    /\ WcIdle
    /\ TeeIdle
    /\ LsIdle
    /\ chmodStr \in ModeStrings
    /\ chmodParts = <<>>
    /\ chmodPart = 0
    /\ chmodMode = 0
    /\ chmodPrev = 0
    /\ chmodRes = "none"
    /\ chmodVal = 0
    /\ chmodPc = "start"

\* parse_mode, symbolic form: the base mode and the split at the commas
ChmodSymbolicStart ==
    /\ chmodPc = "start"
    /\ IsSymbolic(chmodStr)
    /\ chmodMode' = (IF Contains(chmodStr, "=") THEN 0 ELSE 438)
    /\ chmodPrev' = (IF Contains(chmodStr, "=") THEN 0 ELSE 438)
    /\ chmodParts' = Split(chmodStr, <<>>)
    /\ chmodPc' = "symbolic"
    /\ UNCHANGED <<chmodStr, chmodPart, chmodRes, chmodVal>>
    /\ UNCHANGED nonChmodVars

\* parse_mode, symbolic form: one part of the mode string
ChmodClause ==
    /\ chmodPc = "symbolic"
    /\ chmodPart < Len(chmodParts)
    /\ LET r == ParsePart(chmodParts[chmodPart + 1], chmodMode)
       IN  IF r.err
           THEN /\ chmodRes' = "Err"
                /\ chmodPc' = "done"
                /\ UNCHANGED <<chmodPart, chmodMode, chmodPrev>>
           ELSE /\ chmodPrev' = chmodMode
                /\ chmodMode' = r.mode
                /\ chmodPart' = chmodPart + 1
                /\ UNCHANGED <<chmodRes, chmodPc>>
    /\ UNCHANGED <<chmodStr, chmodParts, chmodVal>>
    /\ UNCHANGED nonChmodVars

\* parse_mode, symbolic form: return Ok(result_mode)
ChmodSymbolicReturn ==
    /\ chmodPc = "symbolic"
    /\ chmodPart = Len(chmodParts)
    /\ chmodRes' = "Ok"
    /\ chmodVal' = chmodMode
    /\ chmodPc' = "done"
    /\ UNCHANGED <<chmodStr, chmodParts, chmodPart, chmodMode, chmodPrev>>
    /\ UNCHANGED nonChmodVars

\* parse_mode, octal form: with a leading '0' the rest is parsed, else all
ChmodOctal ==
    /\ chmodPc = "start"
    /\ ~IsSymbolic(chmodStr)
    /\ LET v == IF chmodStr # <<>> /\ Head(chmodStr) = "0"
                THEN ParseOctal(Tail(chmodStr))
                ELSE ParseOctal(chmodStr)
       IN  IF v = -1
           THEN /\ chmodRes' = "Err"
                /\ UNCHANGED chmodVal
           ELSE /\ chmodRes' = "Ok"
                /\ chmodVal' = v
    /\ chmodPc' = "done"
    /\ UNCHANGED <<chmodStr, chmodParts, chmodPart, chmodMode, chmodPrev>>
    /\ UNCHANGED nonChmodVars

ChmodNext ==
    \/ ChmodSymbolicStart
    \/ ChmodClause
    \/ ChmodSymbolicReturn
    \/ ChmodOctal

SpecChmod == ChmodInit /\ [][ChmodNext]_vars

----------------------------------------------------------------------------
(* ls: list_dir. A file name is a sequence of bytes, a String a sequence of *)
(* code points                                                              *)

\* most entries of the directory given to list_dir
MaxEntries == 3

\* "a", "b", ".a", "ab", and two names that are not UTF-8 (a byte 0xFF, a
\* byte 0xFE)
LsNameSamples == {<<97>>, <<98>>, <<46, 97>>, <<97, 98>>, <<255>>, <<254>>}

\* the sequences without repetition of at most n elements of S
RECURSIVE Arrangements(_, _)
Arrangements(S, n) ==
    IF n = 0 THEN {<<>>}
    ELSE LET shorter == Arrangements(S, n - 1)
         IN  shorter \cup
             UNION {{Append(q, x) : x \in S \ {q[i] : i \in 1..Len(q)}} :
                    q \in shorter}

\* what the iterator of read_dir yields: each entry of the directory once,
\* in any order, as Ok(entry) or as Err
LsListings ==
    UNION {{[i \in 1..Len(q) |-> [name |-> q[i], ok |-> i \notin bad]] :
               bad \in SUBSET (1..Len(q))} :
           q \in Arrangements(LsNameSamples, MaxEntries)}

\* U+FFFD REPLACEMENT CHARACTER
ReplacementChar == 65533

\* OsStr::to_string_lossy on names made of ASCII bytes and of the bytes
\* 0xFE and 0xFF, which are never part of UTF-8: each gives one U+FFFD
ToStringLossy(name) ==
    [i \in 1..Len(name) |-> IF name[i] < 128 THEN name[i] ELSE ReplacementChar]

\* name.starts_with('.')
StartsWithDot(str) == str # <<>> /\ str[1] = 46

\* the test of the closure of filter_map
LsKeep(str, include_dot_files) == ~StartsWithDot(str) \/ include_dot_files

\* the order of String: lexicographic by code points
RECURSIVE StrLess(_, _)
StrLess(a, b) ==
    IF b = <<>> THEN FALSE
    ELSE IF a = <<>> THEN TRUE
    ELSE IF Head(a) # Head(b) THEN Head(a) < Head(b)
    ELSE StrLess(Tail(a), Tail(b))

RECURSIVE InsertSorted(_, _)
InsertSorted(x, sorted) ==
    IF sorted = <<>> THEN <<x>>
    ELSE IF StrLess(x, Head(sorted)) THEN <<x>> \o sorted
    ELSE <<Head(sorted)>> \o InsertSorted(x, Tail(sorted))

\* a list_dir that forgets to sort
SortNamesNone(names) == names

\* names.sort()
RECURSIVE SortNames(_)
SortNames(names) ==
    IF names = <<>> THEN <<>>
    ELSE InsertSorted(names[Len(names)], SortNames(SubSeq(names, 1, Len(names) - 1)))

LsInit ==
    /\ CodecIdle
    /\ WcIdle
    /\ TeeIdle
    /\ ChmodIdle
    /\ lsReadable \in BOOLEAN
    /\ lsEntries \in (IF lsReadable THEN LsListings ELSE {<<>>})
    /\ lsInclude \in BOOLEAN
    /\ lsPos = 0
    /\ lsNames = <<>>
    /\ lsRes = "none"
    /\ lsVal = <<>>
    /\ lsPc = "start"

\* fs::read_dir(dir) succeeds
LsReadDir ==
    /\ lsPc = "start"
    /\ lsReadable
    /\ lsPc' = "iter"
    /\ UNCHANGED <<lsEntries, lsReadable, lsInclude, lsPos, lsNames, lsRes, lsVal>>
    /\ UNCHANGED nonLsVars

\* fs::read_dir(dir) fails: list_dir returns the error with its context
LsReadDirError ==
    /\ lsPc = "start"
    /\ ~lsReadable
    /\ lsRes' = "Err"
    /\ lsPc' = "done"
    /\ UNCHANGED <<lsEntries, lsReadable, lsInclude, lsPos, lsNames, lsVal>>
    /\ UNCHANGED nonLsVars

\* the closure of filter_map on the next entry
LsEntry ==
    /\ lsPc = "iter"
    /\ lsPos < Len(lsEntries)
    /\ LET entry == lsEntries[lsPos + 1]
           name == ToStringLossy(entry.name)
       IN  lsNames' = IF entry.ok /\ LsKeep(name, lsInclude)
                      THEN Append(lsNames, name)
                      ELSE lsNames
    /\ lsPos' = lsPos + 1
    /\ UNCHANGED <<lsEntries, lsReadable, lsInclude, lsRes, lsVal, lsPc>>
    /\ UNCHANGED nonLsVars

\* the end of the iterator: names.sort() and Ok(names)
LsReturn ==
    /\ lsPc = "iter"
    /\ lsPos = Len(lsEntries)
    /\ lsVal' = SortNames(lsNames)
    /\ lsRes' = "Ok"
    /\ lsPc' = "done"
    /\ UNCHANGED <<lsEntries, lsReadable, lsInclude, lsPos, lsNames>>
    /\ UNCHANGED nonLsVars

LsNext ==
    \/ LsReadDir
    \/ LsReadDirError
    \/ LsEntry
    \/ LsReturn

SpecLs == LsInit /\ [][LsNext]_vars

----------------------------------------------------------------------------
(* Vocabulary of the properties *)

\* the codec's output so far: the Vec of base64, the bytes written by qbase64
Acc == IF prog = "base64" THEN buf ELSE sink

Finished == pc \in {"returned", "exited", "panicked"}

Range(s) == {s[i] : i \in 1..Len(s)}

\* RFC 4648, table 1: the symbol of a 6-bit value
RFC4648Symbol(v) ==
    IF v < 26 THEN 65 + v
    ELSE IF v < 52 THEN 97 + (v - 26)
    ELSE IF v < 62 THEN 48 + (v - 52)
    ELSE IF v = 62 THEN 43
    ELSE 47

RFC4648Alphabet == {RFC4648Symbol(v) : v \in 0..63}

\* byte i (0-indexed) of a group, zero when the group is shorter
GroupByte(g, i) == IF i < Len(g) THEN g[i + 1] ELSE 0

\* the 24-bit value of a group, most significant byte first
GroupValue(g) == GroupByte(g, 0) * 65536 + GroupByte(g, 1) * 256 + GroupByte(g, 2)

\* RFC 4648 encoding of one group of 1..3 bytes
RFC4648Group(g) ==
    [j \in 1..4 |->
        IF j - 1 <= Len(g)
        THEN RFC4648Symbol((GroupValue(g) \div Pow2(18 - 6 * (j - 1))) % 64)
        ELSE 61]

RECURSIVE RFC4648Groups(_, _)
RFC4648Groups(s, n) ==
    IF n = 0 THEN <<>>
    ELSE RFC4648Groups(s, n - 1) \o RFC4648Group(SubSeq(s, 3 * (n - 1) + 1, Min(Len(s), 3 * n)))

CeilDiv(a, b) == (a + b - 1) \div b

\* the number of '=' at the end of s
RECURSIVE TrailingPads(_)
TrailingPads(s) ==
    IF s # <<>> /\ s[Len(s)] = 61 THEN 1 + TrailingPads(SubSeq(s, 1, Len(s) - 1)) ELSE 0

PadsIn(s) == Cardinality({i \in 1..Len(s) : s[i] = 61})

----------------------------------------------------------------------------
(* Properties *)

\* C1: round trip. Every encoding run succeeds, and a decoding run fed with
\* the output of an encoding run of B succeeds and yields exactly B (the
\* returned Vec of base64, and the bytes written by either program).
RoundTrip ==
    /\ (mode = "ENCODE" => result \in {"none", "Ok"} /\ pc # "panicked")
    /\ (stage = 2 =>
          /\ result \in {"none", "Ok"} /\ pc # "panicked"
          /\ (prog = "base64" /\ result = "Ok" => output = original)
          /\ (pc = "exited" => sink = original))

RoundTripWitness ==
    /\ stage = 2 /\ pc = "exited" /\ result = "Ok"
    /\ original = HELLO /\ input = SEVMTE8pad /\ sink = HELLO

\* C2: a decoding run on a non-empty input whose length is not a multiple
\* of 4 ends in an error and has produced no decoded byte.
MalformedLengthFails ==
    (mode = "DECODE" /\ Finished /\ Len(input) % 4 # 0) =>
        (result = "Err" /\ output = <<>> /\ sink = <<>>)

\* C3: a decoding run on an input with a byte that is neither a symbol of
\* the alphabet nor '=' ends in an error, whatever the position of the byte,
\* and no decoded byte is returned (nor written, in base64).
InvalidSymbolFails ==
    (mode = "DECODE" /\ Finished
        /\ \E i \in 1..Len(input) : input[i] \notin RFC4648Alphabet \cup {61}) =>
        /\ result = "Err"
        /\ output = <<>>
        /\ (prog = "base64" => buf = <<>> /\ sink = <<>>)

InvalidSymbolFailsWitness ==
    /\ mode = "DECODE" /\ prog = "base64" /\ pc = "panicked"
    /\ input = SEVMhashE8pad /\ result = "Err" /\ k = 1

\* a full group of the input in which a '=' is followed by another symbol
InteriorPad(s) ==
    \E g \in 0..(Len(s) \div 4 - 1) :
        \E i \in 1..3 : \E j \in (i + 1)..4 :
            s[4 * g + i] = 61 /\ s[4 * g + j] # 61

\* C4: a decoding run on an input with a group in which '=' is followed by
\* a symbol other than '=' ends in an error.
InteriorPadRejected ==
    (mode = "DECODE" /\ Finished /\ InteriorPad(input)) => result = "Err"

\* C5: when a decoding run of either program has reported an error,
\* nothing has been written to the output.
FailedDecodeWritesNothing ==
    (mode = "DECODE" /\ result = "Err") => sink = <<>>

\* C6: length law. After k groups the encoder has produced 4 * k symbols,
\* and the finished encoding of B has 4 * ceil(len(B) / 3) symbols.
LengthLaw ==
    mode = "ENCODE" =>
        /\ (pc = "loop" => Len(Acc) = 4 * k)
        /\ (result = "Ok" /\ prog = "base64" => Len(output) = 4 * CeilDiv(Len(input), 3))
        /\ (pc = "exited" => Len(sink) = 4 * CeilDiv(Len(input), 3))

LengthLawWitness ==
    /\ mode = "ENCODE" /\ pc = "exited"
    /\ Len(input) = 4 /\ Len(sink) = 8

\* C7: padding law. The finished encoding of B ends with no, two or one '='
\* when len(B) % 3 is 0, 1 or 2, and has no other '='.
PaddingLaw ==
    (mode = "ENCODE" /\ pc = "exited") =>
        /\ TrailingPads(sink) = (CASE Len(input) % 3 = 0 -> 0
                                   [] Len(input) % 3 = 1 -> 2
                                   [] Len(input) % 3 = 2 -> 1)
        /\ PadsIn(sink) = TrailingPads(sink)

PaddingLawWitness ==
    /\ mode = "ENCODE" /\ pc = "exited"
    /\ Len(input) = 4 /\ TrailingPads(sink) = 2 /\ Len(sink) = 8

\* C8: encode is total. No encoding run panics or returns an error: for
\* every group every shift amount is non-negative and every sextet indexes
\* the table; the empty input yields the empty output.
EncodeTotal ==
    mode = "ENCODE" =>
        /\ (pc = "loop" /\ k < NumChunks(input, EncChunkSize) =>
              LET chunk == Chunk(input, EncChunkSize, k)
              IN  /\ \A i \in 0..(Len(chunk) - 1) : EncByteShift(i) >= 0
                  /\ \A i \in 0..Len(chunk) :
                        /\ EncSextetShift(i) >= 0
                        /\ EncSextet(EncPack(chunk, 0, 0), i) \in 0..63)
        /\ result \in {"none", "Ok"}
        /\ pc # "panicked"
        /\ (Finished => result = "Ok")
        /\ (pc = "exited" /\ input = <<>> => sink = <<>>)

EncodeTotalWitness ==
    /\ mode = "ENCODE" /\ pc = "exited" /\ result = "Ok"
    /\ input = <<255, 255, 255, 255>>

\* C9: encode computes RFC 4648. The symbols produced after k groups are the
\* RFC 4648 encodings of the first k groups, and the vectors of the tests
\* come out as stated.
EncodeIsRFC4648 ==
    mode = "ENCODE" =>
        /\ Acc = RFC4648Groups(input, k)
        /\ (pc = "exited" =>
              /\ sink = RFC4648Groups(input, CeilDiv(Len(input), 3))
              /\ (input = HELLO => sink = SEVMTE8pad)
              /\ (input = <<0>> => sink = <<65, 65, 61, 61>>)
              /\ (input = <<255, 255, 255>> => sink = <<47, 47, 47, 47>>))

EncodeIsRFC4648Witness ==
    /\ mode = "ENCODE" /\ pc = "exited"
    /\ input = <<255, 255, 255>> /\ sink = <<47, 47, 47, 47>>

\* the table and its two lookups, whatever the state
TableIsBijective ==
    /\ Len(B64TABLE) = 64
    /\ \A i, j \in 1..Len(B64TABLE) : B64TABLE[i] = B64TABLE[j] => i = j
    /\ \A i \in 1..Len(B64TABLE) : B64TABLE[i] # 61
    /\ \A i \in 0..63 : Position(B64TABLE[i + 1]) = i
    /\ \A c \in 0..255 : c \notin Range(B64TABLE) => Position(c) = NoPos
    /\ Position(61) = NoPos

\* C10: the table holds 64 pairwise distinct symbols, none of them '='; the
\* reverse lookup is the inverse of the forward lookup, and a byte that is
\* not in the table (among them '=') has no index; so it is for every byte
\* of the input of a run.
AlphabetBijective ==
    /\ TableIsBijective
    /\ \A i \in 1..Len(input) :
          IF input[i] \in RFC4648Alphabet
          THEN B64TABLE[Position(input[i]) + 1] = input[i]
          ELSE Position(input[i]) = NoPos

\* a decoding run has looked up the first and the last symbol of the table
AlphabetBijectiveWitness ==
    /\ mode = "DECODE" /\ result = "Ok" /\ scanned = Len(input)
    /\ 65 \in Range(input) /\ 47 \in Range(input)

\* the number of '=' in the k-th group of 4 symbols of s
PadsOfGroup(s, g) == PadsIn(Chunk(s, 4, g))

\* C11: decode is total on well-formed input. On an input whose length is
\* a multiple of 4 and whose bytes are all symbols of the alphabet or '=',
\* no decoding run panics or returns an error: every shift amount is
\* non-negative, a group of three or four '=' emits no byte (3 - pad_count
\* is 0 or negative), and the empty input yields the empty output.
DecodeTotal ==
    (mode = "DECODE" /\ Len(input) % 4 = 0
        /\ \A i \in 1..Len(input) : input[i] \in RFC4648Alphabet \cup {61}) =>
        /\ (pc = "loop" /\ k < NumChunks(input, DecChunkSize) =>
              LET chunk == Chunk(input, DecChunkSize, k)
                  pads == PadsIn(chunk)
              IN  /\ \A i \in 0..(Len(chunk) - 1) : DecSextetShift(i) >= 0
                  /\ \A i \in 0..(DecEmitCount(pads) - 1) : DecByteShift(i) >= 0
                  /\ DecEmitCount(pads) = (IF pads >= 3 THEN 0 ELSE 3 - pads))
        /\ result \in {"none", "Ok"}
        /\ pc # "panicked"
        /\ (Finished => result = "Ok")
        /\ (pc = "loop" =>
              \A g \in 0..(k - 1) : PadsOfGroup(input, g) >= 3 =>
                  Len(Acc) <= 3 * (k - 1))
        /\ (pc = "exited" /\ input = <<>> => sink = <<>>)
        /\ (pc = "exited" /\ input \in {<<61, 61, 61, 61>>, <<83, 61, 61, 61>>} =>
              sink = <<>>)

DecodeTotalWitness ==
    /\ mode = "DECODE" /\ pc = "exited" /\ result = "Ok"
    /\ input = <<61, 61, 61, 61>> /\ sink = <<>> /\ scanned = 4

\* the output of the sequential loop for the first n groups of s
RECURSIVE GroupOutputs(_, _, _)
GroupOutputs(m, s, n) ==
    IF n = 0 THEN <<>>
    ELSE GroupOutputs(m, s, n - 1) \o
         (IF m = "ENCODE"
          THEN EncodeChunk(Chunk(s, EncChunkSize, n - 1))
          ELSE LET r == DecScan(Chunk(s, DecChunkSize, n - 1), 0, 0, 0)
               IN  DecBytes(r.encoded, r.pad_count))

\* C12: placement by group index. What the codec has produced is the
\* concatenation of the outputs of the groups processed so far, in input
\* order, and the k-th group, when its turn comes, writes from position 4 * k
\* (encoding) or 3 * k (decoding) on.
PlacementByGroupIndex ==
    (pc = "loop" /\ result = "none") =>
        /\ Acc = GroupOutputs(mode, input, k)
        /\ (mode = "ENCODE" /\ k < NumChunks(input, EncChunkSize) => Len(Acc) = 4 * k)
        /\ (mode = "DECODE" /\ k < NumChunks(input, DecChunkSize) => Len(Acc) = 3 * k)

\* the index (from 1) of the first byte of s that is neither a symbol of the
\* alphabet nor '=', 0 when there is none
FirstInvalid(s) ==
    LET bad == {i \in 1..Len(s) : s[i] \notin RFC4648Alphabet \cup {61}}
    IN  IF bad = {} THEN 0 ELSE CHOOSE i \in bad : \A j \in bad : i <= j

\* C19: fail-fast decode. A decoding run takes the groups in input order,
\* one at a time; the step that reports the error is the step of the group
\* of the first invalid symbol, it looks up no symbol after that one and
\* adds no byte to what was produced by the groups before it; from then on
\* nothing is looked up, appended or written.
FailFastDecode ==
    [][(mode = "DECODE" /\ mode' = "DECODE") =>
          /\ k' \in {k, k + 1}
          /\ (k' = k + 1 => scanned' = scanned + Len(Chunk(input, DecChunkSize, k)))
          /\ (result # "Err" /\ result' = "Err" =>
                /\ FirstInvalid(input) # 0
                /\ k = (FirstInvalid(input) - 1) \div 4
                /\ scanned = 4 * k
                /\ scanned' = FirstInvalid(input)
                /\ sink' = sink
                /\ sink = (IF prog = "qbase64" THEN GroupOutputs("DECODE", input, k) ELSE <<>>)
                /\ buf' = <<>>
                /\ output' = <<>>)
          /\ (result = "Err" =>
                /\ result' = "Err"
                /\ UNCHANGED <<k, scanned, sink, buf, output>>)
    ]_vars

FailFastDecodeWitness ==
    /\ mode = "DECODE" /\ prog = "qbase64" /\ pc = "panicked" /\ result = "Err"
    /\ input = SEVMhashE8pad /\ k = 1 /\ scanned = 5 /\ sink = <<72, 69, 76>>

\* the whitespace bytes of the reference definition of a word
RefWhitespace == {32, 9, 10, 12, 13}

\* the reference counts of a byte sequence
RefCounts(s) ==
    [bytes |-> Len(s),
     lines |-> Cardinality({i \in 1..Len(s) : s[i] = 10}),
     words |-> Cardinality({i \in 1..Len(s) :
                   /\ s[i] \notin RefWhitespace
                   /\ (i = 1 \/ s[i - 1] \in RefWhitespace)}),
     chars |-> Cardinality({i \in 1..Len(s) : s[i] \notin 128..191})]

\* C13: the counts of count_reader after each byte are the reference counts
\* of the bytes read so far, and the counts it returns are those of the
\* whole input: bytes, '\n' bytes, maximal runs of non-whitespace bytes, and
\* bytes outside 0x80..0xBF.
WcMatchesReference ==
    wcPc \in {"loop", "done"} =>
        /\ wcCounts = RefCounts(SubSeq(wcInput, 1, wcPos))
        /\ (wcPc = "done" =>
              /\ wcCounts = RefCounts(wcInput)
              /\ (wcInput = WcVaryingWhitespace => wcCounts.words = 2)
              /\ (wcInput = WcOnlyWhitespace => wcCounts.words = 0 /\ wcCounts.lines = 2)
              /\ (wcInput = WcMixedUnicode => wcCounts.chars = 6 /\ wcCounts.words = 2)
              /\ (wcInput = WcEmoji => wcCounts.chars = 2)
              /\ (wcInput = WcNoNewline => wcCounts.words = 2 /\ wcCounts.lines = 0))

WcMatchesReferenceWitness ==
    /\ wcPc = "done" /\ wcInput = WcMixedUnicode
    /\ wcCounts = [lines |-> 1, words |-> 2, bytes |-> 10, chars |-> 6]

\* the files among the paths given to tee that opened
TeeOpened == {teePaths[i] : i \in 1..Len(teePaths)} \cap TeeFiles

\* C14: tee without append. When tee has returned, append being false,
\* every listed file that could be opened (and written) holds exactly the
\* input, whatever it held before.
TeeFilesEqualInput ==
    (teePc = "done" /\ ~teeAppend) =>
        \A f \in TeeOpened \ teeBroken : teeFs[f] = teeInput

\* C15: tee tolerates failing destinations. A path that cannot be opened is
\* passed over with a message and gets no writer; stdout is always the last
\* writer; every writer whose writes do not fail has received, in order,
\* every input byte copied so far, whatever writers before it failed, and
\* all the input once tee has returned.
TeeToleratesFailures ==
    teePc \in {"copy", "done"} =>
        /\ Len(teeWriters) =
              Cardinality({i \in 1..Len(teePaths) : teePaths[i] \in TeeFiles}) + 1
        /\ teeWriters[Len(teeWriters)].target = "stdout"
        /\ \A i \in 1..Len(teeWriters) : teeWriters[i].target # "missing"
        /\ teeErrs >= Cardinality({i \in 1..Len(teePaths) : teePaths[i] \notin TeeFiles})
        /\ \A f \in TeeOpened : \E i \in 1..Len(teeWriters) : teeWriters[i].target = f
        /\ \A i \in 1..Len(teeWriters) :
              teeWriters[i].target \notin teeBroken =>
                  teeWriters[i].got = SubSeq(teeInput, 1, teePos)
        /\ (teePc = "done" => teePos = Len(teeInput))

\* a path that does not open and a file whose writes fail come before stdout,
\* which got the two chunks
TeeToleratesFailuresWitness ==
    /\ teePc = "done" /\ teePaths = <<"missing", "f1">> /\ teeBroken = {"f1"}
    /\ teeInput = <<7, 8>> /\ teeErrs = 3
    /\ Len(teeWriters) = 2
    /\ teeWriters[1].got = <<>> /\ teeWriters[2].got = <<7, 8>>

\* the permission bits (0..8) that are set in a mode
ModeBits(n) == {i \in 0..8 : (n \div Pow2(i)) % 2 = 1}

RECURSIVE ModeOfBits(_)
ModeOfBits(S) ==
    IF S = {} THEN 0
    ELSE LET i == CHOOSE x \in S : TRUE IN Pow2(i) + ModeOfBits(S \ {i})

\* a clause W op P: letters of ugoa, one of + - =, letters of rwx
ClauseOpIndex(part) ==
    CHOOSE i \in 1..Len(part) :
        /\ part[i] \in {"+", "-", "="}
        /\ \A j \in 1..(i - 1) : part[j] \notin {"+", "-", "="}

IsClause(part) ==
    /\ \E i \in 1..Len(part) : part[i] \in {"+", "-", "="}
    /\ \A j \in 1..(ClauseOpIndex(part) - 1) : part[j] \in {"u", "g", "o", "a"}
    /\ \A j \in (ClauseOpIndex(part) + 1)..Len(part) : part[j] \in {"r", "w", "x"}

ClassBits(c) ==
    CASE c = "u" -> {6, 7, 8}
      [] c = "g" -> {3, 4, 5}
      [] c = "o" -> {0, 1, 2}
      [] c = "a" -> 0..8

KindBits(c) ==
    CASE c = "r" -> {2, 5, 8}
      [] c = "w" -> {1, 4, 7}
      [] c = "x" -> {0, 3, 6}

\* the bits of W (all of them when W is empty) and the bits of P
ClauseWho(part) ==
    IF ClauseOpIndex(part) = 1 THEN 0..8
    ELSE UNION {ClassBits(part[j]) : j \in 1..(ClauseOpIndex(part) - 1)}

ClausePerms(part) ==
    UNION {KindBits(part[j]) : j \in (ClauseOpIndex(part) + 1)..Len(part)}

ClauseOp(part) == part[ClauseOpIndex(part)]

\* the clauses of a list applied from left to right to a set of bits
RECURSIVE ApplyClauses(_, _, _)
ApplyClauses(bits, parts, n) ==
    IF n = 0 THEN bits
    ELSE LET before == ApplyClauses(bits, parts, n - 1)
             W == ClauseWho(parts[n])
             P == ClausePerms(parts[n])
         IN  CASE ClauseOp(parts[n]) = "+" -> before \cup (P \cap W)
               [] ClauseOp(parts[n]) = "-" -> before \ (P \cap W)
               [] ClauseOp(parts[n]) = "=" -> (before \ W) \cup (P \cap W)

\* C16: parse_mode, symbolic form. After a clause W op P: with + the bits
\* of P within W are set, with - they are clear, with = the bits within W
\* are exactly those of P; the bits outside W are as before the clause; the
\* result has no bit outside 0o777; the clauses of a list apply from left to
\* right and a list of such clauses parses to Ok (a+rwx gives 0o777, u=rw
\* gives 0o600).
SymbolicModeLaw ==
    (chmodPc \in {"symbolic", "done"} /\ chmodParts # <<>>) =>
        /\ chmodMode \in 0..511
        /\ (chmodPart >= 1 =>
              LET part == chmodParts[chmodPart]
                  W == ClauseWho(part)
                  P == ClausePerms(part)
                  old == ModeBits(chmodPrev)
                  new == ModeBits(chmodMode)
              IN  /\ IsClause(part)
                  /\ (ClauseOp(part) = "+" => (P \cap W) \subseteq new)
                  /\ (ClauseOp(part) = "-" => (P \cap W) \cap new = {})
                  /\ (ClauseOp(part) = "=" => new \cap W = P \cap W)
                  /\ new \ W = old \ W)
        /\ (\A i \in 1..Len(chmodParts) : IsClause(chmodParts[i])) =>
              /\ chmodRes # "Err"
              /\ chmodMode =
                    ModeOfBits(ApplyClauses(
                        ModeBits(IF Contains(chmodStr, "=") THEN 0 ELSE 438),
                        chmodParts, chmodPart))
              /\ (chmodPc = "done" =>
                    /\ chmodRes = "Ok" /\ chmodVal = chmodMode
                    /\ chmodPart = Len(chmodParts)
                    /\ (chmodStr = <<"a", "+", "r", "w", "x">> => chmodVal = 511)
                    /\ (chmodStr = <<"u", "=", "r", "w">> => chmodVal = 384))

\* u+wx, then u=r, which has to clear the w and the x of the first clause
SymbolicModeLawWitness ==
    /\ chmodPc = "done" /\ chmodRes = "Ok"
    /\ chmodStr = <<"u", "+", "w", "x", ",", "u", "=", "r">>
    /\ chmodPart = 2 /\ chmodPrev = 192 /\ chmodVal = 256

\* the value of a string of octal digits
RECURSIVE OctalValue(_)
OctalValue(str) ==
    IF str = <<>> THEN 0
    ELSE 8 * OctalValue(SubSeq(str, 1, Len(str) - 1)) +
         (CHOOSE v \in 0..7 : <<"0", "1", "2", "3", "4", "5", "6", "7">>[v + 1] = str[Len(str)])

IsOctalString(str) ==
    /\ str # <<>>
    /\ \A i \in 1..Len(str) : str[i] \in {"0", "1", "2", "3", "4", "5", "6", "7"}

\* C17: parse_mode, octal form. A non-empty string of octal digits, with or
\* without a leading '0', parses to Ok of its octal value; a string that is
\* neither octal nor symbolic gives Err.
OctalModeLaw ==
    chmodPc = "done" =>
        /\ (IsOctalString(chmodStr) =>
              chmodRes = "Ok" /\ chmodVal = OctalValue(chmodStr))
        /\ (~IsOctalString(chmodStr) /\ ~IsSymbolic(chmodStr) => chmodRes = "Err")

\* a <= b in the lexicographic order, without recursion
LexLeq(a, b) ==
    \/ Len(a) <= Len(b) /\ \A i \in 1..Len(a) : a[i] = b[i]
    \/ \E i \in 1..Min(Len(a), Len(b)) :
          /\ a[i] < b[i]
          /\ \A j \in 1..(i - 1) : a[j] = b[j]

\* the names of the directory, and those a listing has to show
LsDirNames == {lsEntries[i].name : i \in 1..Len(lsEntries)}

LsVisible(names) == {n \in names : lsInclude \/ n = <<>> \/ n[1] # 46}

\* the original statement of C18: list_dir returns the names of the entries
\* of the directory, sorted, without duplicates or omissions, leaving out
\* exactly the names that start with '.' unless include_dot_files is set;
\* an empty directory gives an empty list and an unreadable one gives Err.
ListDirExact ==
    lsPc = "done" =>
        /\ (lsRes = "Err" <=> ~lsReadable)
        /\ (lsRes = "Ok" =>
              /\ \A i \in 1..(Len(lsVal) - 1) : LexLeq(lsVal[i], lsVal[i + 1])
              /\ \A i, j \in 1..Len(lsVal) : lsVal[i] = lsVal[j] => i = j
              /\ {lsVal[i] : i \in 1..Len(lsVal)} = LsVisible(LsDirNames)
              /\ (lsEntries = <<>> => lsVal = <<>>))

\* the name of an entry as a String: a byte that is not ASCII reads U+FFFD
LossyName(n) == [i \in 1..Len(n) |-> IF n[i] \in 0..127 THEN n[i] ELSE 65533]

\* C18, amended: list_dir returns, sorted, one name for each entry that
\* read_dir yields without error, the name being the lossy UTF-8 reading of
\* the file name, leaving out exactly the names that start with '.' unless
\* include_dot_files is set; there are no duplicates among names that are
\* valid UTF-8; an empty directory gives an empty list and an unreadable one
\* gives Err.
ListDirOfReadEntries ==
    lsPc = "done" =>
        /\ (lsRes = "Err" <=> ~lsReadable)
        /\ (lsRes = "Ok" =>
              LET read == {i \in 1..Len(lsEntries) :
                              /\ lsEntries[i].ok
                              /\ LossyName(lsEntries[i].name) \in
                                     LsVisible({LossyName(lsEntries[i].name)})}
              IN  /\ \A i \in 1..(Len(lsVal) - 1) : LexLeq(lsVal[i], lsVal[i + 1])
                  /\ Len(lsVal) = Cardinality(read)
                  /\ \A i \in read :
                        Cardinality({j \in 1..Len(lsVal) :
                                        lsVal[j] = LossyName(lsEntries[i].name)}) =
                        Cardinality({j \in read :
                                        LossyName(lsEntries[j].name) =
                                        LossyName(lsEntries[i].name)})
                  /\ \A i, j \in 1..Len(lsVal) :
                        (lsVal[i] = lsVal[j] /\ 65533 \notin Range(lsVal[i])) => i = j
                  /\ (lsEntries = <<>> => lsVal = <<>>))

\* "b", ".a" and "a" were read in this order and ".a" is hidden
ListDirOfReadEntriesWitness ==
    /\ lsPc = "done" /\ lsRes = "Ok" /\ ~lsInclude
    /\ lsEntries = <<[name |-> <<98>>, ok |-> TRUE], [name |-> <<46, 97>>, ok |-> TRUE],
                     [name |-> <<97>>, ok |-> TRUE]>>
    /\ lsVal = <<<<97>>, <<98>>>>

====
